---------------------------- MODULE Spec2Model ----------------------------
(***************************************************************************)
(* Content scheduling and playback engine of the video display system.     *)
(*                                                                         *)
(*   - scheduleUtils.isVideoScheduledNow (lib/supabase.ts): the schedule   *)
(*     evaluator, with the JavaScript Date conversions it goes through.    *)
(*   - DisplayPage (app/display/page.tsx): the playlist sequencer, a React *)
(*     component; one action per event handler, each action being the      *)
(*     handler, the render that follows it and the effects of that render. *)
(*                                                                         *)
(* Time is counted in seconds from 00:00:00 UTC of a Sunday (day 0); a     *)
(* calendar date "YYYY-MM-DD" is its day number.  Date keeps milliseconds; *)
(* every instant of the model is a whole second, for which the comparisons *)
(* against 23:59:59.999 and against 23:59:59 agree.                        *)
(***************************************************************************)
EXTENDS Integers, Sequences, FiniteSets, Bags, TLC

VARIABLES
  \* --- the schedule evaluator under test (SpecEval)
  evVideo,            \* the Video record given to isVideoScheduledNow
  evNow,              \* the instant given to it (currentTime)
  evResult,           \* "none" before the call, then "true" | "false" | "throw"
  \* --- the runtime both parts share
  host,               \* the local time zone of the machine that runs the code
  \* --- the display (Spec)
  db,                 \* the rows of the videos table
  now,                \* the wall clock, new Date()
  videos,             \* useState<Video[]>: the published playlist
  currentVideoIndex,  \* useState(0)
  loading,            \* useState(true)
  error,              \* useState<string | null>: "null" or the message shown
  videoError,         \* useState(false)
  videoLoadError,     \* useState<string | null>: TRUE when a message is set
  listening,          \* the mounted <video> element carries the effect's listeners
  timers,             \* pending setTimeout callbacks, in firing order
  loads,              \* loadVideos calls awaiting getAllVideos, oldest first
  notifications,      \* number of notifications received so far
  consecutiveFailures,\* history: playback errors since the last successful
                      \* play, counted up to 3
  swScript,           \* which text of public/sw.js the worker runs
  swState,            \* ServiceWorker.state: "installing", "installed"
                      \* (waiting) or "activated"
  skipWaitingFlag,    \* the worker has called self.skipWaiting()
  cacheNames,         \* CacheStorage: the names of the caches, oldest first
  cacheEntries,       \* cache name -> request URL -> the response stored:
                      \* "none", "fresh" (what the server holds now), "stale"
  fetches,            \* bag of the worker's network fetches awaiting an answer
  response,           \* the last response handed to respondWith
  \* --- ServiceWorkerManager (SpecMgr)
  mgrEnv,             \* "unsupported" (no navigator.serviceWorker),
                      \* "development" (hostname localhost) or "production"
  mgrPc,              \* init(): "start", "registering" (awaits register),
                      \* "checking" (awaits registration.update()), "ready"
                      \* (past the try), "failed" (the catch ran), "off"
  registration,       \* this.registration is set
  updateAvailable,    \* this.updateAvailable
  updateListener,     \* the updatefound listener is attached
  subscribed,         \* a callback is in this.callbacks
  lastStatus,         \* the status the callback received last
  swWaiting,          \* registration.waiting: a new worker is installed
  controller,         \* navigator.serviceWorker.controller is set
  updatePc            \* update(): "idle" or "checking"

evalVars == <<evVideo, evNow, evResult>>
seqVars == <<db, now, videos, currentVideoIndex, loading, error, videoError,
             videoLoadError, listening, timers, loads, notifications,
             consecutiveFailures>>
swVars == <<swScript, swState, skipWaitingFlag, cacheNames, cacheEntries,
           fetches, response>>
mgrVars == <<mgrEnv, mgrPc, registration, updateAvailable, updateListener,
            subscribed, lastStatus, swWaiting, controller, updatePc>>
vars == <<evVideo, evNow, evResult, host, db, now, videos, currentVideoIndex,
          loading, error, videoError, videoLoadError, listening, timers,
          loads, notifications, consecutiveFailures, swScript, swState,
          skipWaitingFlag, cacheNames, cacheEntries, fetches, response,
          mgrEnv, mgrPc, registration, updateAvailable, updateListener,
          subscribed, lastStatus, swWaiting, controller, updatePc>>

---------------------------------------------------------------------------
(* Bounds of the model. *)

\* Calendar days run from day 6 (a Saturday) to MaxDay.
MaxDay == 9
\* Notifications from outside in one behaviour: changes of the videos table
\* pushed by the realtime channel, and service worker status reports.
MaxNotifications == 1
\* Pending auto-skip timers.
MaxTimers == 1
\* loadVideos calls in flight.
MaxLoads == 2
\* Network fetches of the service worker in flight.
MaxFetches == 2
\* The entries a cache may hold, scaled to the request URLs of the model
\* (next.config.ts sets maxEntries 100 and 50 for the workbox caches).
MaxEntries == 1

Days == 6 .. MaxDay

SecPerHour == 60 * 60
SecPerDay == 24 * SecPerHour

---------------------------------------------------------------------------
(* JavaScript Date, as far as isVideoScheduledNow uses it. *)

\* An absent optional field of Video (undefined, null or the empty string).
NoDate == -1
NoTime == <<-1, -1>>
NoWeekdays == [kind |-> "absent", days |-> {}]
\* A schedule_weekdays string JSON.parse rejects (or that is no array).
Malformed == [kind |-> "malformed", days |-> {}]
WeekdaysJSON(s) == [kind |-> "json", days |-> s]

\* Host time zones: std is the offset east of UTC in seconds; dstAt is the
\* instant at which the local clock jumps forward one hour (0: never).
HostUTC == [name |-> "UTC", std |-> 0, dstAt |-> 0]
HostKolkata == [name |-> "Asia/Kolkata", std |-> 5 * SecPerHour + 1800, dstAt |-> 0]
\* A zone west of UTC whose clock goes from 02:00 to 03:00 on day 7 (Sunday).
HostWestDST == [name |-> "America/New_York", std |-> -(5 * SecPerHour),
                dstAt |-> 7 * SecPerDay + 2 * SecPerHour + 5 * SecPerHour]
Hosts == {HostUTC, HostKolkata, HostWestDST}

\* Offset of the item's IANA zone; `video.schedule_timezone || 'UTC'`.
TzOffset(tz) ==
  CASE tz = "UTC" -> 0
    [] tz = "" -> 0
    [] tz = "Asia/Tokyo" -> 9 * SecPerHour
    [] OTHER -> 0

\* Intl knows the zone.
TzKnown(tz) == tz \in {"UTC", "", "Asia/Tokyo"}

\* now.toLocaleString('en-US', {timeZone}): the wall clock of the instant in
\* the zone, "M/D/YYYY, h:mm:ss AM", as seconds since day 0 00:00:00.
ToLocaleString(t, tz) == t + TzOffset(tz)

\* The host's offset in force at instant e.
HostOffsetAt(e, h) ==
  IF h.dstAt > 0 /\ e >= h.dstAt THEN h.std + SecPerHour ELSE h.std

\* new Date("M/D/YYYY, h:mm:ss AM"): a date-time string without zone is read
\* as local time of the host.  A wall clock the host skips is read with the
\* offset before the jump (ECMAScript UTC(t)).
NewDateLocal(w, h) ==
  LET before == w - h.std
      after == w - h.std - SecPerHour
  IN  IF h.dstAt = 0 \/ before < h.dstAt THEN before
      ELSE IF after >= h.dstAt THEN after
      ELSE before

\* new Date("YYYY-MM-DD"): a date-only string is read as UTC midnight.
NewDateISO(d) == d * SecPerDay

\* Date.prototype.getHours / getMinutes / getDay: fields in host local time.
GetHours(e, h) == ((e + HostOffsetAt(e, h)) % SecPerDay) \div SecPerHour
GetMinutes(e, h) == ((e + HostOffsetAt(e, h)) % SecPerHour) \div 60
\* getUTCDay(): the weekday of the instant in UTC, whatever the host.
GetUTCDay(e, h) == (e \div SecPerDay) % 7
GetDay(e, h) == ((e + HostOffsetAt(e, h)) \div SecPerDay) % 7

\* endDate.setHours(23, 59, 59, 999): same host-local date, last instant.
SetHoursEndOfDay(e, h) ==
  NewDateLocal(((e + HostOffsetAt(e, h)) \div SecPerDay) * SecPerDay
               + SecPerDay - 1, h)

---------------------------------------------------------------------------
(* scheduleUtils *)

\* An encoding of "HH:MM" that does not keep the order of the times.
timeStringToMinutesUnordered(timeString) == timeString[1] * 10 + timeString[2]

\* timeString.split(':').map(Number), then hours * 100 + minutes.
\* A time string "HH:MM" is the pair <<HH, MM>>.
timeStringToMinutes(timeString) == timeString[1] * 100 + timeString[2]

\* const nowInTimezone = new Date(now.toLocaleString('en-US', {timeZone}))
NowInTimezone(video, t, h) ==
  NewDateLocal(ToLocaleString(t, video.schedule_timezone), h)

\* JSON.parse(video.schedule_weekdays) or weekdays.includes(...) throws.
WeekdaysThrow(video) == video.schedule_weekdays.kind = "malformed"

\* An exception leaves isVideoScheduledNow.
Throws(video) ==
  /\ video.is_active
  /\ \/ ~TzKnown(video.schedule_timezone)
     \/ /\ video.schedule_type \in {"weekdays", "custom"}
        /\ WeekdaysThrow(video)

\* case 'date_range'
DateRangeBranch(video, t, h) ==
  IF video.schedule_start_date = NoDate \/ video.schedule_end_date = NoDate
  THEN FALSE
  ELSE LET startDate == NewDateISO(video.schedule_start_date)
           endDate == SetHoursEndOfDay(NewDateISO(video.schedule_end_date), h)
           nowInTimezone == NowInTimezone(video, t, h)
       IN  nowInTimezone >= startDate /\ nowInTimezone <= endDate

\* case 'time_daily'
TimeDailyBranch(video, t, h) ==
  IF video.schedule_start_time = NoTime \/ video.schedule_end_time = NoTime
  THEN FALSE
  ELSE LET nowInTimezone == NowInTimezone(video, t, h)
           currentTime == GetHours(nowInTimezone, h) * 100
                          + GetMinutes(nowInTimezone, h)
           startTime == timeStringToMinutes(video.schedule_start_time)
           endTime == timeStringToMinutes(video.schedule_end_time)
       IN  IF startTime <= endTime
           THEN currentTime >= startTime /\ currentTime <= endTime
           ELSE currentTime >= startTime \/ currentTime <= endTime

\* case 'weekdays'
WeekdaysBranch(video, t, h) ==
  IF video.schedule_weekdays.kind = "absent"
  THEN FALSE
  ELSE LET weekdays == video.schedule_weekdays.days
           currentWeekday == GetDay(NowInTimezone(video, t, h), h)
       IN  currentWeekday \in weekdays

\* case 'custom' with the sub-rules joined by "or".
CustomBranchAny(video, t, h) ==
  LET nowInTimezone == NowInTimezone(video, t, h)
      isInDateRange ==
        IF video.schedule_start_date # NoDate /\ video.schedule_end_date # NoDate
        THEN LET startDate == NewDateISO(video.schedule_start_date)
                 endDate == SetHoursEndOfDay(NewDateISO(video.schedule_end_date), h)
             IN  nowInTimezone >= startDate /\ nowInTimezone <= endDate
        ELSE TRUE
      isInTimeRange ==
        IF video.schedule_start_time # NoTime /\ video.schedule_end_time # NoTime
        THEN TimeDailyBranch(video, t, h)
        ELSE TRUE
      isOnCorrectWeekday ==
        IF video.schedule_weekdays.kind # "absent"
        THEN GetDay(nowInTimezone, h) \in video.schedule_weekdays.days
        ELSE TRUE
  IN  isInDateRange \/ isInTimeRange \/ isOnCorrectWeekday

\* case 'custom'
CustomBranch(video, t, h) ==
  LET nowInTimezone == NowInTimezone(video, t, h)
      isInDateRange ==
        IF video.schedule_start_date # NoDate /\ video.schedule_end_date # NoDate
        THEN LET startDate == NewDateISO(video.schedule_start_date)
                 endDate == SetHoursEndOfDay(NewDateISO(video.schedule_end_date), h)
             IN  nowInTimezone >= startDate /\ nowInTimezone <= endDate
        ELSE TRUE
      isInTimeRange ==
        IF video.schedule_start_time # NoTime /\ video.schedule_end_time # NoTime
        THEN LET currentTime == GetHours(nowInTimezone, h) * 100
                                + GetMinutes(nowInTimezone, h)
                 startTime == timeStringToMinutes(video.schedule_start_time)
                 endTime == timeStringToMinutes(video.schedule_end_time)
             IN  IF startTime <= endTime
                 THEN currentTime >= startTime /\ currentTime <= endTime
                 ELSE currentTime >= startTime \/ currentTime <= endTime
        ELSE TRUE
      isOnCorrectWeekday ==
        IF video.schedule_weekdays.kind # "absent"
        THEN GetDay(nowInTimezone, h) \in video.schedule_weekdays.days
        ELSE TRUE
  IN  isInDateRange /\ isInTimeRange /\ isOnCorrectWeekday

\* isVideoScheduledNow(video, currentTime), run on host h; its value when
\* it returns (Throws tells when it does not).
isVideoScheduledNow(video, t, h) ==
  IF ~video.is_active THEN FALSE
  ELSE CASE video.schedule_type = "always" -> TRUE
         [] video.schedule_type = "date_range" -> DateRangeBranch(video, t, h)
         [] video.schedule_type = "time_daily" -> TimeDailyBranch(video, t, h)
         [] video.schedule_type = "weekdays" -> WeekdaysBranch(video, t, h)
         [] video.schedule_type = "custom" -> CustomBranch(video, t, h)
         [] OTHER -> FALSE

---------------------------------------------------------------------------
(* The inputs of the evaluator: Video rows and instants. *)

Video(id, seq, active, type, dates, times, wd, tz) ==
  [id |-> id, sequence_order |-> seq, is_active |-> active,
   schedule_type |-> type,
   schedule_start_date |-> dates[1], schedule_end_date |-> dates[2],
   schedule_start_time |-> times[1], schedule_end_time |-> times[2],
   schedule_weekdays |-> wd, schedule_timezone |-> tz]

NoDates == <<NoDate, NoDate>>
NoTimes == <<NoTime, NoTime>>

\* "Mars/Phobos" stands for a text that names no IANA zone.
EvalZones == {"UTC", "Asia/Tokyo", "", "Mars/Phobos"}
EvalClock == {<<2, 0>>, <<2, 45>>, <<6, 0>>, <<22, 0>>}
EvalDates == (Days \X Days) \cup {<<NoDate, 7>>, <<7, NoDate>>}
EvalTimes == (EvalClock \X EvalClock) \cup {<<NoTime, <<6, 0>>>>, <<<<22, 0>>, NoTime>>}
EvalWeekdays == {NoWeekdays, WeekdaysJSON({0, 6}), WeekdaysJSON({1, 3, 5}),
                 WeekdaysJSON({}), Malformed}
CustomDates == {NoDates, <<7, 7>>, <<6, 8>>, <<7, NoDate>>}
CustomTimes == {NoTimes, <<<<22, 0>>, <<6, 0>>>>, <<<<2, 0>>, <<2, 45>>>>,
                <<NoTime, <<6, 0>>>>}
CustomWeekdays == {NoWeekdays, WeekdaysJSON({0, 6}), WeekdaysJSON({1, 3, 5}), Malformed}

EvalVideos ==
  {Video(1, 1, a, "always", NoDates, NoTimes, NoWeekdays, tz) :
      a \in BOOLEAN, tz \in EvalZones}
  \cup {Video(1, 1, TRUE, "date_range", d, NoTimes, NoWeekdays, tz) :
      d \in EvalDates, tz \in EvalZones}
  \cup {Video(1, 1, TRUE, "time_daily", NoDates, t, NoWeekdays, tz) :
      t \in EvalTimes, tz \in EvalZones}
  \cup {Video(1, 1, TRUE, "weekdays", NoDates, NoTimes, w, tz) :
      w \in EvalWeekdays, tz \in EvalZones}
  \cup {Video(1, 1, TRUE, "custom", d, t, w, tz) :
      d \in CustomDates, t \in CustomTimes, w \in CustomWeekdays,
      tz \in EvalZones}
  \cup {Video(1, 1, TRUE, "unknown", NoDates, NoTimes, NoWeekdays, "UTC")}

\* Instants, as UTC day and time of day.
At(day, hh, mm, ss) == day * SecPerDay + hh * SecPerHour + mm * 60 + ss
EvalInstants ==
  {At(d, c[1], c[2], c[3]) : d \in Days,
     c \in {<<0, 0, 1>>, <<2, 30, 0>>, <<5, 59, 0>>, <<7, 0, 0>>, <<10, 0, 0>>,
            <<14, 30, 0>>, <<23, 30, 0>>, <<23, 59, 59>>}}

---------------------------------------------------------------------------
(* public/sw.js: the caches, the request URLs and the responses of the      *)
(* service worker.                                                         *)

\* The three texts of public/sw.js: "fixed" (Fixed service worker for PWA),
\* "manual" (Manual service worker for PWA), "custom" (Custom Service Worker
\* for Video Display System).
Scripts == {"fixed", "manual", "custom"}

\* The caches.  CACHE_NAME holds the pages and static assets (the custom
\* text names that cache STATIC_CACHE and its API cache 'api-responses-v1').
VIDEO_CACHE == "video-files-v1"
API_CACHE == "api-cache-v1"
CACHE_NAME == "video-display-v1"
CacheNames == {VIDEO_CACHE, API_CACHE, CACHE_NAME}
\* A cache the previous version of the worker left behind under its own
\* version tag.
OLD_VIDEO_CACHE == "video-files-v0"
AllCaches == CacheNames \cup {OLD_VIDEO_CACHE}

\* Request URLs on the worker's own origin, and the requests made for them:
\* a <video> element asks with destination 'video', a script with ''.
VideoUri == "/media/a.mp4"
ApiUri == "/api/videos"
AssetUri == "/logo.png"
Uris == {VideoUri, ApiUri, AssetUri}
Requests ==
  {[uri |-> VideoUri, destination |-> "video"]}
  \cup {[uri |-> u, destination |-> ""] : u \in Uris}

NoEntries == [c \in AllCaches |-> [u \in Uris |-> "none"]]
NoResponse == [uri |-> "", branch |-> "", from |-> "none", body |-> "none"]

\* No worker is at work.
SWIdle ==
  /\ swScript = "fixed" /\ swState = "activated" /\ skipWaitingFlag = FALSE
  /\ cacheNames = <<>> /\ cacheEntries = NoEntries
  /\ fetches = EmptyBag /\ response = NoResponse

\* A ServiceWorkerStatus, as the callbacks receive it; `sent` is FALSE while
\* the callback has received none.
Status(isSupported, isRegistered, isUpdateAvailable) ==
  [sent |-> TRUE, isSupported |-> isSupported, isRegistered |-> isRegistered,
   isUpdateAvailable |-> isUpdateAvailable]
NoStatus ==
  [sent |-> FALSE, isSupported |-> FALSE, isRegistered |-> FALSE,
   isUpdateAvailable |-> FALSE]

\* No manager is at work.
MgrIdle ==
  /\ mgrEnv = "production" /\ mgrPc = "off" /\ registration = FALSE
  /\ updateAvailable = FALSE /\ updateListener = FALSE /\ subscribed = FALSE
  /\ lastStatus = NoStatus /\ swWaiting = FALSE /\ controller = FALSE
  /\ updatePc = "idle"

---------------------------------------------------------------------------
(* SpecEval: one call of isVideoScheduledNow on a drawn row and instant. *)

SeqIdle ==
  /\ db = {} /\ now = 0 /\ videos = <<>> /\ currentVideoIndex = 0
  /\ loading = TRUE /\ error = "null" /\ videoError = FALSE
  /\ videoLoadError = FALSE /\ listening = FALSE /\ timers = <<>>
  /\ loads = <<>> /\ notifications = 0 /\ consecutiveFailures = 0

InitEval ==
  /\ evVideo \in EvalVideos
  /\ evNow \in EvalInstants
  /\ evResult = "none"
  /\ host \in Hosts
  /\ SeqIdle
  /\ SWIdle
  /\ MgrIdle

\* The call returns a boolean.
EvalReturn ==
  /\ evResult = "none"
  /\ ~Throws(evVideo)
  /\ evResult' = IF isVideoScheduledNow(evVideo, evNow, host) THEN "true" ELSE "false"
  /\ UNCHANGED <<evVideo, evNow, host, seqVars, swVars, mgrVars>>

\* The call ends in an exception.
EvalThrow ==
  /\ evResult = "none"
  /\ Throws(evVideo)
  /\ evResult' = "throw"
  /\ UNCHANGED <<evVideo, evNow, host, seqVars, swVars, mgrVars>>

NextEval == EvalReturn \/ EvalThrow

SpecEval == InitEval /\ [][NextEval]_vars

\* SpecEnc: one call of isVideoScheduledNow on a time_daily row, for daily
\* windows and instants over every hour of the day.
EncClock == {<<hh, mm>> : hh \in 0 .. 23, mm \in {0, 30, 59}}

InitEnc ==
  /\ \E s \in EncClock, e \in EncClock :
       evVideo = Video(1, 1, TRUE, "time_daily", NoDates, <<s, e>>, NoWeekdays, "UTC")
  /\ \E c \in EncClock : evNow = At(7, c[1], c[2], 0)
  /\ evResult = "none"
  /\ host = HostUTC
  /\ SeqIdle
  /\ SWIdle
  /\ MgrIdle

SpecEnc == InitEnc /\ [][EvalReturn]_vars

---------------------------------------------------------------------------
(* videoApi.getAllVideos and the recompute of loadVideos. *)

\* The videos the admin panel has uploaded, by id.  A row of the table is
\* held as its id and its is_active flag; its other columns are those of
\* Catalog[id].
V1 == Video(1, 1, TRUE, "always", NoDates, NoTimes, NoWeekdays, "UTC")
V2 == Video(2, 2, TRUE, "time_daily", NoDates, <<<<22, 0>>, <<6, 0>>>>,
            NoWeekdays, "UTC")
V3 == Video(3, 3, TRUE, "weekdays", NoDates, NoTimes,
            WeekdaysJSON({1, 3, 5}), "UTC")
Catalog == <<V1, V2, V3>>
VideoIds == DOMAIN Catalog

Row(id, active) == [id |-> id, is_active |-> active]
\* The Video object of a row.
VideoOf(row) == [Catalog[row.id] EXCEPT !.is_active = row.is_active]
SequenceOrder(row) == Catalog[row.id].sequence_order

\* The instants the wall clock passes through: Sunday 23:30 and Monday
\* 07:00 (UTC); between them the window of video 2 ends and the weekday of
\* video 3 begins.
ClockInstants == {At(7, 23, 30, 0), At(8, 7, 0, 0)}

\* select('*').order('sequence_order'): the rows in ascending
\* sequence_order; rows of equal sequence_order come in any order.
getAllVideos(rows) ==
  {s \in [1 .. Cardinality(rows) -> rows] :
     /\ \A i, j \in DOMAIN s : i # j => s[i] # s[j]
     /\ \A i, j \in DOMAIN s :
          i < j => SequenceOrder(s[i]) <= SequenceOrder(s[j])}

\* Insert row v into the sorted sequence s after every row that does not
\* compare greater (a stable insertion).
RECURSIVE InsertSorted(_, _)
InsertSorted(s, v) ==
  IF s = <<>> THEN <<v>>
  ELSE IF SequenceOrder(s[Len(s)]) - SequenceOrder(v) <= 0
       THEN Append(s, v)
       ELSE Append(InsertSorted(SubSeq(s, 1, Len(s) - 1), v), s[Len(s)])

\* scheduledVideos.sort((a, b) => a.sequence_order - b.sequence_order);
\* Array.prototype.sort is stable.
RECURSIVE SortBySequenceOrder(_)
SortBySequenceOrder(s) ==
  IF s = <<>> THEN <<>>
  ELSE InsertSorted(SortBySequenceOrder(SubSeq(s, 1, Len(s) - 1)), s[Len(s)])

\* allVideos.filter(video => video.is_active && isVideoScheduledNow(video))
FilterScheduled(allVideos, t, h) ==
  SelectSeq(allVideos,
            LAMBDA v : v.is_active /\ isVideoScheduledNow(VideoOf(v), t, h))

\* The filter callback throws on some row.
FilterThrows(allVideos) ==
  \E i \in DOMAIN allVideos :
    allVideos[i].is_active /\ Throws(VideoOf(allVideos[i]))

ErrNoVideos == "No videos found"
ErrNoActive == "No active videos found"
ErrNoneScheduled == "No videos are currently scheduled to play"
ErrLoadFailed == "Failed to load videos"

\* The message of the empty-result branch.
EmptyMessage(allVideos) ==
  IF Len(allVideos) = 0 THEN ErrNoVideos
  ELSE IF Len(SelectSeq(allVideos, LAMBDA v : v.is_active)) = 0 THEN ErrNoActive
  ELSE ErrNoneScheduled

---------------------------------------------------------------------------
(* DisplayPage: what is rendered, and the playback effect. *)

\* The branch of the render: the three early returns, then the conditional
\* that shows either the error panel or the <video> element.
Screen(l, e, vs, idx, ve, vle) ==
  IF l THEN "loading"
  ELSE IF e # "null" THEN "error"
  ELSE IF idx + 1 > Len(vs) THEN "noVideoSelected"
  ELSE IF ve \/ vle THEN "videoError"
  ELSE "video"

ScreenNow ==
  Screen(loading, error, videos, currentVideoIndex, videoError, videoLoadError)

\* videos[currentVideoIndex], when there is one.
HasCurrentVideo == currentVideoIndex + 1 <= Len(videos)
currentVideo == videos[currentVideoIndex + 1]

\* The playback useEffect, deps [currentVideoIndex, videos.length]: when
\* a dep changed it removes its listeners and, if a <video> element is
\* mounted and the playlist is not empty, adds them to that element.  With
\* the deps unchanged the listeners stay on the element they were put on,
\* which is the mounted one only if it was not unmounted by this render or
\* the one before.
PlaybackEffect ==
  listening' =
    LET mountedBefore == ScreenNow = "video"
        mountedAfter ==
          Screen(loading', error', videos', currentVideoIndex', videoError',
                 videoLoadError') = "video"
        depsChanged == \/ currentVideoIndex' # currentVideoIndex
                       \/ Len(videos') # Len(videos)
    IN  IF depsChanged THEN mountedAfter /\ Len(videos') # 0
        ELSE mountedBefore /\ mountedAfter /\ listening

Min(a, b) == IF a < b THEN a ELSE b

---------------------------------------------------------------------------
(* DisplayPage: the handlers. *)

\* loadVideos up to its await: setError(null), then the request.
LoadStart ==
  /\ Len(loads) < MaxLoads
  /\ error' = "null"
  /\ \E snapshot \in getAllVideos(db') : loads' = Append(loads, snapshot)

\* The admin panel changes a row (insert, delete, toggle is_active); the
\* realtime subscription calls loadVideos.
AdminEdit ==
  /\ notifications < MaxNotifications
  /\ notifications' = notifications + 1
  /\ \E id \in VideoIds :
       \/ /\ \A r \in db : r.id # id
          /\ db' = db \cup {Row(id, TRUE)}
       \/ \E r \in db : r.id = id /\ db' = db \ {r}
       \/ \E r \in db :
            /\ r.id = id
            /\ db' = (db \ {r}) \cup {Row(id, ~r.is_active)}
  /\ LoadStart
  /\ UNCHANGED <<now, videos, currentVideoIndex, loading, videoError,
                 videoLoadError, timers, consecutiveFailures>>
  /\ PlaybackEffect
  /\ UNCHANGED <<evalVars, host, swVars, mgrVars>>

\* The Retry button of the "No Videos to Display" screen: onClick={loadVideos}.
RetryLoad ==
  /\ ScreenNow = "error"
  /\ db' = db
  /\ LoadStart
  /\ UNCHANGED <<now, videos, currentVideoIndex, loading, videoError,
                 videoLoadError, timers, notifications, consecutiveFailures>>
  /\ PlaybackEffect
  /\ UNCHANGED <<evalVars, host, swVars, mgrVars>>

\* The service worker manager reports a status: setSwStatus gives loadVideos
\* a new identity (useCallback deps [swStatus]), and the effect that depends
\* on it runs again and calls it.
swStatusChanged ==
  /\ notifications < MaxNotifications
  /\ notifications' = notifications + 1
  /\ db' = db
  /\ LoadStart
  /\ UNCHANGED <<now, videos, currentVideoIndex, loading, videoError,
                 videoLoadError, timers, consecutiveFailures>>
  /\ PlaybackEffect
  /\ UNCHANGED <<evalVars, host, swVars, mgrVars>>

\* loadVideos after its await: getAllVideos resolved with `loads[i]`.
LoadDone(i) ==
  /\ i \in DOMAIN loads
  /\ LET allVideos == loads[i]
         scheduledVideos == FilterScheduled(allVideos, now, host)
     IN  IF FilterThrows(allVideos)
         THEN /\ error' = ErrLoadFailed
              /\ UNCHANGED <<videos, currentVideoIndex>>
         ELSE IF Len(scheduledVideos) = 0
         THEN /\ error' = EmptyMessage(allVideos)
              /\ UNCHANGED <<videos, currentVideoIndex>>
         ELSE /\ videos' = SortBySequenceOrder(scheduledVideos)
              /\ currentVideoIndex' = 0
              /\ error' = error
  /\ loading' = FALSE
  /\ loads' = SubSeq(loads, 1, i - 1) \o SubSeq(loads, i + 1, Len(loads))
  /\ UNCHANGED <<db, now, videoError, videoLoadError, timers, notifications,
                 consecutiveFailures>>
  /\ PlaybackEffect
  /\ UNCHANGED <<evalVars, host, swVars, mgrVars>>

\* loadVideos after its await: getAllVideos threw (the request failed).
LoadFail(i) ==
  /\ i \in DOMAIN loads
  /\ error' = ErrLoadFailed
  /\ loading' = FALSE
  /\ loads' = SubSeq(loads, 1, i - 1) \o SubSeq(loads, i + 1, Len(loads))
  /\ UNCHANGED <<db, now, videos, currentVideoIndex, videoError,
                 videoLoadError, timers, notifications, consecutiveFailures>>
  /\ PlaybackEffect
  /\ UNCHANGED <<evalVars, host, swVars, mgrVars>>

\* The <video> element fires an event the effect listens to.
EventHeard == ScreenNow = "video" /\ listening

\* handleVideoEnd
handleVideoEnd ==
  /\ EventHeard
  /\ currentVideoIndex' = (currentVideoIndex + 1) % Len(videos)
  /\ videoError' = FALSE
  /\ videoLoadError' = FALSE
  /\ consecutiveFailures' = 0
  /\ UNCHANGED <<db, now, videos, loading, error, timers, loads, notifications>>
  /\ PlaybackEffect
  /\ UNCHANGED <<evalVars, host, swVars, mgrVars>>

\* handleVideoError with a failure threshold: from the third consecutive
\* error on no auto-skip is scheduled.
handleVideoErrorStalling ==
  /\ EventHeard
  /\ Len(timers) < MaxTimers
  /\ videoError' = TRUE
  /\ videoLoadError' = TRUE
  /\ timers' = IF consecutiveFailures + 1 >= 3 THEN timers
               ELSE Append(timers, [index |-> currentVideoIndex,
                                    length |-> Len(videos)])
  /\ consecutiveFailures' = Min(consecutiveFailures + 1, 3)
  /\ UNCHANGED <<db, now, videos, currentVideoIndex, loading, error, loads,
                 notifications>>
  /\ PlaybackEffect
  /\ UNCHANGED <<evalVars, host, swVars, mgrVars>>

\* handleVideoError: the error panel, and the auto-skip timer, whose
\* callback keeps the currentVideoIndex and videos.length of this render.
handleVideoError ==
  /\ EventHeard
  /\ Len(timers) < MaxTimers
  /\ videoError' = TRUE
  /\ videoLoadError' = TRUE
  /\ timers' = Append(timers, [index |-> currentVideoIndex, length |-> Len(videos)])
  /\ consecutiveFailures' = Min(consecutiveFailures + 1, 3)
  /\ UNCHANGED <<db, now, videos, currentVideoIndex, loading, error, loads,
                 notifications>>
  /\ PlaybackEffect
  /\ UNCHANGED <<evalVars, host, swVars, mgrVars>>

\* handleCanPlay, video.play() resolving.
handleCanPlay ==
  /\ EventHeard
  /\ videoError' = FALSE
  /\ videoLoadError' = FALSE
  /\ consecutiveFailures' = 0
  /\ UNCHANGED <<db, now, videos, currentVideoIndex, loading, error, timers,
                 loads, notifications>>
  /\ PlaybackEffect
  /\ UNCHANGED <<evalVars, host, swVars, mgrVars>>

\* handleCanPlay, video.play() rejecting: setVideoLoadError(message).
handleCanPlayRejected ==
  /\ EventHeard
  /\ videoError' = FALSE
  /\ videoLoadError' = TRUE
  /\ UNCHANGED <<db, now, videos, currentVideoIndex, loading, error, timers,
                 loads, notifications, consecutiveFailures>>
  /\ PlaybackEffect
  /\ UNCHANGED <<evalVars, host, swVars, mgrVars>>

\* handleLoadedData: setVideoLoadError(null).
handleLoadedData ==
  /\ EventHeard
  /\ videoLoadError' = FALSE
  /\ UNCHANGED <<db, now, videos, currentVideoIndex, loading, error,
                 videoError, timers, loads, notifications, consecutiveFailures>>
  /\ PlaybackEffect
  /\ UNCHANGED <<evalVars, host, swVars, mgrVars>>

\* The setTimeout callback of handleVideoError, 5 s after the error; the
\* timers have one delay and fire in the order they were set.
TimerFire ==
  /\ timers # <<>>
  /\ LET t == Head(timers)
     IN  currentVideoIndex' = (t.index + 1) % t.length
  /\ videoError' = FALSE
  /\ videoLoadError' = FALSE
  /\ timers' = Tail(timers)
  /\ UNCHANGED <<db, now, videos, loading, error, loads, notifications,
                 consecutiveFailures>>
  /\ PlaybackEffect
  /\ UNCHANGED <<evalVars, host, swVars, mgrVars>>

\* retryVideo, the Retry button of the error panel (videoRef.current is
\* null while the panel is shown, so there is no load()).
retryVideo ==
  /\ ScreenNow = "videoError"
  /\ videoError' = FALSE
  /\ videoLoadError' = FALSE
  /\ UNCHANGED <<db, now, videos, currentVideoIndex, loading, error, timers,
                 loads, notifications, consecutiveFailures>>
  /\ PlaybackEffect
  /\ UNCHANGED <<evalVars, host, swVars, mgrVars>>

\* skipToNext, the Skip button of the error panel (shown for more than one
\* video).
skipToNext ==
  /\ ScreenNow = "videoError"
  /\ Len(videos) > 1
  /\ currentVideoIndex' = (currentVideoIndex + 1) % Len(videos)
  /\ videoError' = FALSE
  /\ videoLoadError' = FALSE
  /\ UNCHANGED <<db, now, videos, loading, error, timers, loads, notifications,
                 consecutiveFailures>>
  /\ PlaybackEffect
  /\ UNCHANGED <<evalVars, host, swVars, mgrVars>>

\* Time passes.
Tick ==
  /\ \E t \in ClockInstants :
       /\ t > now
       /\ \A u \in ClockInstants : u > now => t <= u
       /\ now' = t
  /\ UNCHANGED <<db, videos, currentVideoIndex, loading, error, videoError,
                 videoLoadError, listening, timers, loads, notifications,
                 consecutiveFailures>>
  /\ UNCHANGED <<evalVars, host, swVars, mgrVars>>

EvalIdle ==
  /\ evVideo = V1 /\ evNow = 0 /\ evResult = "none"

\* The component is mounted: the state hooks hold their initial values and
\* the mount effect has called loadVideos.
Init ==
  /\ EvalIdle
  /\ host = HostUTC
  /\ db \in {{Row(id, TRUE) : id \in 1 .. n} : n \in 0 .. Len(Catalog)}
  /\ now = At(7, 23, 30, 0)
  /\ videos = <<>>
  /\ currentVideoIndex = 0
  /\ loading = TRUE
  /\ error = "null"
  /\ videoError = FALSE
  /\ videoLoadError = FALSE
  /\ listening = FALSE
  /\ timers = <<>>
  /\ loads \in {<<snapshot>> : snapshot \in getAllVideos(db)}
  /\ notifications = 0
  /\ consecutiveFailures = 0
  /\ SWIdle
  /\ MgrIdle

Next ==
  \/ AdminEdit
  \/ RetryLoad
  \/ swStatusChanged
  \/ \E i \in 1 .. MaxLoads : LoadDone(i)
  \/ \E i \in 1 .. MaxLoads : LoadFail(i)
  \/ handleVideoEnd
  \/ handleVideoError
  \/ handleCanPlay
  \/ handleCanPlayRejected
  \/ handleLoadedData
  \/ TimerFire
  \/ retryVideo
  \/ skipToNext
  \/ Tick

Spec == Init /\ [][Next]_vars

\* The requests settle, the timers fire and time passes.
FairSpec ==
  /\ Spec
  /\ WF_vars(\E i \in 1 .. MaxLoads : LoadDone(i) \/ LoadFail(i))
  /\ WF_vars(TimerFire)
  /\ WF_vars(Tick)

---------------------------------------------------------------------------
(* public/sw.js: the fetch and message handlers. *)

\* The branch of the fetch handler that answers a request.
Route(script, req) ==
  IF script = "custom"
  THEN CASE req.uri = VideoUri -> "video"      \* isVideoRequest: '.mp4'
         [] req.uri = ApiUri -> "api"          \* isApiRequest: '/api/'
         [] OTHER -> "static"                  \* isStaticAsset: '.png'
  ELSE IF req.destination = "video" THEN "video"
       ELSE IF req.uri = ApiUri THEN "api"     \* pathname.startsWith('/api/')
       ELSE "static"                           \* all other requests

\* caches.open(name): the cache is created when it does not exist.
Open(names, name) ==
  IF \E i \in DOMAIN names : names[i] = name THEN names
  ELSE Append(names, name)

\* cache.put(request, response) of a response the network has just given.
Put(entries, name, uri) ==
  [entries EXCEPT ![name][uri] = "fresh"]

\* caches.match(request): the first cache, in order of creation, that holds
\* the request; "" when none does.
MatchAll(names, entries, uri) ==
  LET hits == {i \in DOMAIN names : entries[names[i]][uri] # "none"}
  IN  IF hits = {} THEN ""
      ELSE names[CHOOSE i \in hits : \A j \in hits : i <= j]

Respond(uri, branch, from, body) ==
  [uri |-> uri, branch |-> branch, from |-> from, body |-> body]

\* A fetch(request) of the worker: `kind` tells who waits for it ("get": the
\* page, through respondWith; "refresh": nobody; "preload": the CACHE_VIDEO
\* message; "retry": the page, after handleStaticAsset's catch), `hung` that
\* the network will never answer.
Fetch(uri, branch, kind) ==
  [uri |-> uri, branch |-> branch, kind |-> kind, hung |-> FALSE]

Started(f) == fetches (+) SetToBag({f})
Ended(f) == fetches (-) SetToBag({f})
CanFetch == BagCardinality(fetches) < MaxFetches

\* The page has taken the last response.
Taken == response = NoResponse

SeqUnchanged == UNCHANGED <<evalVars, host, seqVars, mgrVars>>

\* The worker is the active one, and stays so: only the active worker
\* receives fetch events and the messages sent to the controller.
Serving == swState = "activated" /\ UNCHANGED <<swState, skipWaitingFlag>>

\* A video branch that asks the network first, whatever the cache holds.
GetVideoNetworkFirst(req) ==
  /\ Taken
  /\ Route(swScript, req) = "video"
  /\ CanFetch
  /\ cacheNames' = Open(cacheNames, VIDEO_CACHE)
  /\ fetches' = Started(Fetch(req.uri, "video", "get"))
  /\ UNCHANGED <<swScript, cacheEntries, response>>
  /\ Serving
  /\ SeqUnchanged

\* The video branch.  In every text: open VIDEO_CACHE, answer from it when
\* it holds the request, fetch otherwise.
GetVideo(req) ==
  /\ Taken
  /\ Route(swScript, req) = "video"
  /\ cacheNames' = Open(cacheNames, VIDEO_CACHE)
  /\ IF cacheEntries[VIDEO_CACHE][req.uri] # "none"
     THEN /\ response' = Respond(req.uri, "video", VIDEO_CACHE,
                                 cacheEntries[VIDEO_CACHE][req.uri])
          /\ UNCHANGED fetches
     ELSE /\ CanFetch
          /\ fetches' = Started(Fetch(req.uri, "video", "get"))
          /\ UNCHANGED response
  /\ UNCHANGED <<swScript, cacheEntries>>
  /\ Serving
  /\ SeqUnchanged

\* The /api/ branch: network first.  The custom text opens API_CACHE before
\* the fetch, the other two after a successful answer.
GetApi(req) ==
  /\ Taken
  /\ Route(swScript, req) = "api"
  /\ CanFetch
  /\ cacheNames' = IF swScript = "custom" THEN Open(cacheNames, API_CACHE)
                   ELSE cacheNames
  /\ fetches' = Started(Fetch(req.uri, "api", "get"))
  /\ UNCHANGED <<swScript, cacheEntries, response>>
  /\ Serving
  /\ SeqUnchanged

\* Pages and static assets.  fixed: caches.match over all caches, and on a
\* hit a fetch in the background that updates CACHE_NAME; manual:
\* caches.match over all caches; custom (handleStaticAsset): the static
\* cache only.
GetStatic(req) ==
  /\ Taken
  /\ Route(swScript, req) = "static"
  /\ LET hit == IF swScript = "custom"
                THEN IF cacheEntries[CACHE_NAME][req.uri] # "none"
                     THEN CACHE_NAME ELSE ""
                ELSE MatchAll(cacheNames, cacheEntries, req.uri)
     IN  /\ cacheNames' = IF swScript = "custom"
                          THEN Open(cacheNames, CACHE_NAME) ELSE cacheNames
         /\ IF hit # ""
            THEN /\ response' = Respond(req.uri, "static", hit,
                                        cacheEntries[hit][req.uri])
                 /\ IF swScript = "fixed"
                    THEN /\ CanFetch
                         /\ fetches' = Started(Fetch(req.uri, "static", "refresh"))
                    ELSE UNCHANGED fetches
            ELSE /\ CanFetch
                 /\ fetches' = Started(Fetch(req.uri, "static", "get"))
                 /\ UNCHANGED response
  /\ UNCHANGED <<swScript, cacheEntries>>
  /\ Serving
  /\ SeqUnchanged

\* message CACHE_VIDEO (fixed and manual texts): fetch the URL and put the
\* answer in VIDEO_CACHE.
Preload(uri) ==
  /\ Taken
  /\ swScript \in {"fixed", "manual"}
  /\ CanFetch
  /\ cacheNames' = Open(cacheNames, VIDEO_CACHE)
  /\ fetches' = Started(Fetch(uri, "video", "preload"))
  /\ UNCHANGED <<swScript, cacheEntries, response>>
  /\ Serving
  /\ SeqUnchanged

\* The fallback of handleVideoRequest's catch (custom text).
VideoFallback(f) ==
  /\ cacheNames' = Open(cacheNames, VIDEO_CACHE)
  /\ UNCHANGED cacheEntries
  /\ response' = IF cacheEntries[VIDEO_CACHE][f.uri] # "none"
                 THEN Respond(f.uri, "video", VIDEO_CACHE,
                              cacheEntries[VIDEO_CACHE][f.uri])
                 ELSE Respond(f.uri, "video", "unavailable", "none")

\* The answer to the fetch of the video branch, and of CACHE_VIDEO.
\* outcome: "ok" (status 200), "notok" (another status), "fail" (the fetch
\* rejects); putOk: cache.put resolves.
ReplyVideo(f, outcome, putOk) ==
  LET stored == IF putOk THEN Put(cacheEntries, VIDEO_CACHE, f.uri)
                ELSE cacheEntries
      network == Respond(f.uri, "video", "network", "fresh")
      notOk == Respond(f.uri, "video", "networkNotOk", "none")
  IN  IF f.kind = "preload"
      THEN /\ cacheEntries' = IF outcome = "ok" THEN stored ELSE cacheEntries
           /\ UNCHANGED <<cacheNames, response>>
      ELSE CASE swScript = "fixed" ->
                  /\ cacheEntries' = IF outcome = "ok" THEN stored
                                     ELSE cacheEntries
                  /\ response' = CASE outcome = "ok" -> network
                                   [] outcome = "notok" -> notOk
                                   [] OTHER -> Respond(f.uri, "video",
                                                       "unavailable", "none")
                  /\ UNCHANGED cacheNames
             [] swScript = "manual" ->
                  /\ cacheEntries' = IF outcome = "ok" THEN stored
                                     ELSE cacheEntries
                  /\ response' = CASE outcome = "ok" -> network
                                   [] outcome = "notok" -> notOk
                                   [] OTHER -> Respond(f.uri, "video",
                                                       "error", "none")
                  /\ UNCHANGED cacheNames
             [] OTHER ->
                  CASE outcome = "ok" /\ putOk ->
                         /\ cacheEntries' = stored
                         /\ response' = network
                         /\ UNCHANGED cacheNames
                    [] outcome = "notok" ->
                         /\ response' = notOk
                         /\ UNCHANGED <<cacheNames, cacheEntries>>
                    [] OTHER -> VideoFallback(f)

\* An /api/ branch without the fallback to the cache.
ReplyApiNoFallback(f, outcome, putOk) ==
  /\ cacheNames' = IF outcome = "ok" THEN Open(cacheNames, API_CACHE)
                   ELSE cacheNames
  /\ cacheEntries' = IF outcome = "ok" /\ putOk
                     THEN Put(cacheEntries, API_CACHE, f.uri)
                     ELSE cacheEntries
  /\ response' = CASE outcome = "ok" -> Respond(f.uri, "api", "network", "fresh")
                   [] outcome = "notok" ->
                        Respond(f.uri, "api", "networkNotOk", "none")
                   [] OTHER -> Respond(f.uri, "api", "unavailable", "none")

\* The answer to the fetch of the /api/ branch.
ReplyApi(f, outcome, putOk) ==
  LET network == Respond(f.uri, "api", "network", "fresh")
      notOk == Respond(f.uri, "api", "networkNotOk", "none")
  IN  IF swScript = "custom"
      THEN CASE outcome = "ok" /\ putOk ->
                  /\ cacheEntries' = Put(cacheEntries, API_CACHE, f.uri)
                  /\ response' = network
                  /\ UNCHANGED cacheNames
             [] outcome = "notok" ->
                  /\ response' = notOk
                  /\ UNCHANGED <<cacheNames, cacheEntries>>
             [] OTHER ->
                  /\ response' = IF cacheEntries[API_CACHE][f.uri] # "none"
                                 THEN Respond(f.uri, "api", API_CACHE,
                                              cacheEntries[API_CACHE][f.uri])
                                 ELSE Respond(f.uri, "api", "unavailable", "none")
                  /\ UNCHANGED <<cacheNames, cacheEntries>>
      ELSE CASE outcome = "ok" ->
                  /\ cacheNames' = Open(cacheNames, API_CACHE)
                  /\ cacheEntries' = IF putOk
                                     THEN Put(cacheEntries, API_CACHE, f.uri)
                                     ELSE cacheEntries
                  /\ response' = network
             [] outcome = "notok" ->
                  /\ response' = notOk
                  /\ UNCHANGED <<cacheNames, cacheEntries>>
             [] OTHER ->
                  LET hit == MatchAll(cacheNames, cacheEntries, f.uri)
                  IN  /\ response' =
                           IF hit # ""
                           THEN Respond(f.uri, "api", hit, cacheEntries[hit][f.uri])
                           ELSE IF swScript = "fixed"
                           THEN Respond(f.uri, "api", "unavailable", "none")
                           ELSE Respond(f.uri, "api", "error", "none")
                      /\ UNCHANGED <<cacheNames, cacheEntries>>

\* The answer to a fetch for a page or static asset.
ReplyStatic(f, outcome, putOk) ==
  LET network == Respond(f.uri, "static", "network", "fresh")
      notOk == Respond(f.uri, "static", "networkNotOk", "none")
      ended == Respond(f.uri, "static",
                       IF swScript = "fixed" THEN "unavailable" ELSE "error",
                       "none")
      opened == Open(cacheNames, CACHE_NAME)
      stored == IF putOk THEN Put(cacheEntries, CACHE_NAME, f.uri)
                ELSE cacheEntries
  IN  CASE f.kind = "refresh" ->
             /\ fetches' = Ended(f)
             /\ IF outcome = "ok"
                THEN cacheNames' = opened /\ cacheEntries' = stored
                ELSE UNCHANGED <<cacheNames, cacheEntries>>
             /\ UNCHANGED response
        [] f.kind = "retry" ->
             /\ fetches' = Ended(f)
             /\ response' = CASE outcome = "ok" -> network
                              [] outcome = "notok" -> notOk
                              [] OTHER -> Respond(f.uri, "static", "error", "none")
             /\ UNCHANGED <<cacheNames, cacheEntries>>
        [] f.kind = "get" /\ swScript = "custom" ->
             CASE outcome = "ok" /\ putOk ->
                    /\ fetches' = Ended(f)
                    /\ cacheEntries' = stored
                    /\ response' = network
                    /\ UNCHANGED cacheNames
               [] outcome = "notok" ->
                    /\ fetches' = Ended(f)
                    /\ response' = notOk
                    /\ UNCHANGED <<cacheNames, cacheEntries>>
               [] OTHER ->
                    /\ fetches' = Ended(f) (+) SetToBag({Fetch(f.uri, "static", "retry")})
                    /\ UNCHANGED <<cacheNames, cacheEntries, response>>
        [] OTHER ->
             /\ fetches' = Ended(f)
             /\ IF outcome = "ok"
                THEN cacheNames' = opened /\ cacheEntries' = stored
                ELSE UNCHANGED <<cacheNames, cacheEntries>>
             /\ response' = CASE outcome = "ok" -> network
                              [] outcome = "notok" -> notOk
                              [] OTHER -> ended

\* The network answers fetch f and the handler's continuation runs.
NetReply(f, outcome, putOk) ==
  /\ Taken
  /\ BagIn(f, fetches)
  /\ ~f.hung
  /\ CASE f.branch = "video" ->
            /\ ReplyVideo(f, outcome, putOk)
            /\ fetches' = Ended(f)
       [] f.branch = "api" ->
            /\ ReplyApi(f, outcome, putOk)
            /\ fetches' = Ended(f)
       [] OTHER -> ReplyStatic(f, outcome, putOk)
  /\ UNCHANGED swScript
  /\ Serving
  /\ SeqUnchanged

\* The network never answers fetch f: a fetch of the /api/ branch, the one
\* handleApiRequest passes a timeout option to.
NetHang(f) ==
  /\ Taken
  /\ BagIn(f, fetches)
  /\ ~f.hung
  /\ f.branch = "api"
  /\ fetches' = Ended(f) (+) SetToBag({[f EXCEPT !.hung = TRUE]})
  /\ UNCHANGED <<swScript, cacheNames, cacheEntries, response>>
  /\ Serving
  /\ SeqUnchanged

\* message CLEAR_CACHE (custom: CLEAR_CACHES): every cache is deleted.  The
\* message is sent while no handler holds a Cache object opened earlier.
ClearCache ==
  /\ Taken
  /\ cacheNames # <<>>
  /\ fetches = EmptyBag
  /\ cacheNames' = <<>>
  /\ cacheEntries' = NoEntries
  /\ UNCHANGED <<swScript, fetches, response>>
  /\ Serving
  /\ SeqUnchanged

\* The server's content changes: what the caches hold is no longer what
\* the server holds.
OriginUpdate ==
  /\ Taken
  /\ cacheEntries' = [c \in AllCaches |-> [u \in Uris |->
                        IF cacheEntries[c][u] = "fresh" THEN "stale"
                        ELSE cacheEntries[c][u]]]
  /\ cacheEntries' # cacheEntries
  /\ UNCHANGED <<swScript, cacheNames, fetches, response>>
  /\ Serving
  /\ SeqUnchanged

\* respondWith has settled and the page has the response.
Deliver ==
  /\ ~Taken
  /\ response' = NoResponse
  /\ UNCHANGED <<swScript, cacheNames, cacheEntries, fetches>>
  /\ Serving
  /\ SeqUnchanged

\* The install handler: open the cache of the static assets and add
\* STATIC_ASSETS to it, then call self.skipWaiting().  `added`: the assets
\* could be fetched and stored.  The fixed and manual texts catch the
\* failure of an asset and go on; in the custom text a failure of
\* cache.addAll goes to the handler's catch, past self.skipWaiting().
Install(added) ==
  /\ swState = "installing"
  /\ swState' = "installed"
  /\ skipWaitingFlag' = (added \/ swScript # "custom")
  /\ cacheNames' = Open(cacheNames, CACHE_NAME)
  /\ UNCHANGED <<swScript, cacheEntries, fetches, response>>
  /\ SeqUnchanged

\* message SKIP_WAITING, posted to registration.waiting by
\* ServiceWorkerManager.skipWaiting.
SkipWaiting ==
  /\ swState = "installed"
  /\ ~skipWaitingFlag
  /\ skipWaitingFlag' = TRUE
  /\ UNCHANGED <<swScript, swState, cacheNames, cacheEntries, fetches, response>>
  /\ SeqUnchanged

\* An activate handler that deletes every cache it finds.
ActivateDeleteAll ==
  /\ swState = "installed"
  /\ skipWaitingFlag
  /\ swState' = "activated"
  /\ cacheNames' = <<>>
  /\ cacheEntries' = NoEntries
  /\ UNCHANGED <<swScript, skipWaitingFlag, fetches, response>>
  /\ SeqUnchanged

\* The caches the activate handler keeps.
KeptNames(names) == SelectSeq(names, LAMBDA name : name \in CacheNames)

\* The activate handler: caches.delete every cache whose name is not one of
\* the worker's own, then clients.claim().  The previous version controls
\* the display page, so the browser activates the waiting worker only once
\* its skip-waiting flag is set.
Activate ==
  /\ swState = "installed"
  /\ skipWaitingFlag
  /\ swState' = "activated"
  /\ cacheNames' = KeptNames(cacheNames)
  /\ cacheEntries' = [c \in AllCaches |->
                        IF c \in CacheNames THEN cacheEntries[c]
                        ELSE [u \in Uris |-> "none"]]
  /\ UNCHANGED <<swScript, skipWaitingFlag, fetches, response>>
  /\ SeqUnchanged

\* What the previous version of the worker left in CacheStorage: nothing,
\* a cache under its own tag, or that and a cache under the tag the new
\* version uses too.
LeftBehind ==
  {<<>>, <<OLD_VIDEO_CACHE>>, <<OLD_VIDEO_CACHE, VIDEO_CACHE>>}

\* A new version of public/sw.js has been found and starts installing.
InitSW ==
  /\ EvalIdle
  /\ host = HostUTC
  /\ SeqIdle
  /\ swScript \in Scripts
  /\ swState = "installing"
  /\ skipWaitingFlag = FALSE
  /\ cacheNames \in LeftBehind
  /\ cacheEntries = [c \in AllCaches |-> [u \in Uris |->
                       IF u = VideoUri /\ \E i \in DOMAIN cacheNames : cacheNames[i] = c
                       THEN "stale" ELSE "none"]]
  /\ fetches = EmptyBag
  /\ response = NoResponse
  /\ MgrIdle

Outcomes == {"ok", "notok", "fail"}

NextSW ==
  \/ \E added \in BOOLEAN : Install(added)
  \/ SkipWaiting
  \/ Activate
  \/ \E req \in Requests : GetVideo(req)
  \/ \E req \in Requests : GetApi(req)
  \/ \E req \in Requests : GetStatic(req)
  \/ Preload(VideoUri)
  \/ \E f \in BagToSet(fetches), outcome \in Outcomes, putOk \in BOOLEAN :
       NetReply(f, outcome, putOk)
  \/ \E f \in BagToSet(fetches) : NetHang(f)
  \/ ClearCache
  \/ OriginUpdate
  \/ Deliver

SpecSW == InitSW /\ [][NextSW]_vars

\* Every fetch is answered unless the network hangs on it, and every
\* response reaches the page.
FairSW ==
  /\ SpecSW
  /\ WF_vars(\E f \in BagToSet(fetches), outcome \in Outcomes, putOk \in BOOLEAN :
               NetReply(f, outcome, putOk))
  /\ WF_vars(Deliver)

---------------------------------------------------------------------------
(* ServiceWorkerManager: init, onStatusChange, update, and the events of   *)
(* the registration it listens to.                                         *)

MgrUnchanged == UNCHANGED <<evalVars, host, seqVars, swVars>>

\* getStatus() on the given fields.
getStatus(reg, available) == Status(mgrEnv # "unsupported", reg, available)

\* notifyCallbacks(status): what the callback has received last afterwards.
notifyCallbacks(status) == IF subscribed THEN status ELSE lastStatus

\* The constructor calls init(), which runs up to its first await.
InitStart ==
  /\ mgrPc = "start"
  /\ IF mgrEnv = "unsupported"
     THEN /\ mgrPc' = "off"
          /\ lastStatus' = notifyCallbacks(Status(FALSE, FALSE, FALSE))
     ELSE IF mgrEnv = "development"
     THEN /\ mgrPc' = "off"
          /\ lastStatus' = notifyCallbacks(Status(TRUE, FALSE, FALSE))
     ELSE /\ mgrPc' = "registering"
          /\ UNCHANGED lastStatus
  /\ UNCHANGED <<mgrEnv, registration, updateAvailable, updateListener,
                 subscribed, swWaiting, controller, updatePc>>
  /\ MgrUnchanged

\* navigator.serviceWorker.register('/sw.js') settles.
RegisterReply(ok) ==
  /\ mgrPc = "registering"
  /\ IF ok
     THEN /\ registration' = TRUE
          /\ mgrPc' = "checking"
          /\ UNCHANGED lastStatus
     ELSE /\ mgrPc' = "failed"
          /\ lastStatus' = notifyCallbacks(Status(TRUE, FALSE, FALSE))
          /\ UNCHANGED registration
  /\ UNCHANGED <<mgrEnv, updateAvailable, updateListener, subscribed,
                 swWaiting, controller, updatePc>>
  /\ MgrUnchanged

\* The registration.update() that init awaits settles.  On success init
\* attaches its listeners, notifies getStatus(), and notifies again with
\* updateAvailable set when registration.waiting exists; on failure the
\* catch notifies a status with isRegistered false.
InitUpdateReply(ok) ==
  /\ mgrPc = "checking"
  /\ IF ok
     THEN /\ mgrPc' = "ready"
          /\ updateListener' = TRUE
          /\ updateAvailable' = (updateAvailable \/ swWaiting)
          /\ lastStatus' = notifyCallbacks(getStatus(registration, updateAvailable'))
     ELSE /\ mgrPc' = "failed"
          /\ lastStatus' = notifyCallbacks(Status(TRUE, FALSE, FALSE))
          /\ UNCHANGED <<updateListener, updateAvailable>>
  /\ UNCHANGED <<mgrEnv, registration, subscribed, swWaiting, controller,
                 updatePc>>
  /\ MgrUnchanged

\* onStatusChange(callback): the callback is added and called at once with
\* getStatus().
onStatusChange ==
  /\ ~subscribed
  /\ mgrPc # "start"
  /\ subscribed' = TRUE
  /\ lastStatus' = getStatus(registration, updateAvailable)
  /\ UNCHANGED <<mgrEnv, mgrPc, registration, updateAvailable, updateListener,
                 swWaiting, controller, updatePc>>
  /\ MgrUnchanged

\* update() is called: with a registration it awaits registration.update().
UpdateCall ==
  /\ updatePc = "idle"
  /\ mgrPc \in {"ready", "failed", "off"}
  /\ updatePc' = IF registration THEN "checking" ELSE "idle"
  /\ UNCHANGED <<mgrEnv, mgrPc, registration, updateAvailable, updateListener,
                 subscribed, lastStatus, swWaiting, controller>>
  /\ MgrUnchanged

\* The registration.update() of update() settles; a failure is caught and
\* logged.
UpdateReply(ok) ==
  /\ updatePc = "checking"
  /\ updatePc' = "idle"
  /\ UNCHANGED <<mgrEnv, mgrPc, registration, updateAvailable, updateListener,
                 subscribed, lastStatus, swWaiting, controller>>
  /\ MgrUnchanged

\* unregister(): with a registration, registration.unregister() is awaited;
\* on success the field is cleared and the callbacks are notified.
unregister(success) ==
  /\ registration
  /\ mgrPc \in {"ready", "failed"}
  /\ IF success
     THEN /\ registration' = FALSE
          /\ lastStatus' = notifyCallbacks(getStatus(FALSE, updateAvailable))
     ELSE UNCHANGED <<registration, lastStatus>>
  /\ UNCHANGED <<mgrEnv, mgrPc, updateAvailable, updateListener, subscribed,
                 swWaiting, controller, updatePc>>
  /\ MgrUnchanged

\* updatefound, then statechange to 'installed' of the new worker: a later
\* update check has found a new version and it has installed.
WorkerInstalled ==
  /\ registration
  /\ ~swWaiting
  /\ swWaiting' = TRUE
  /\ IF updateListener /\ controller
     THEN /\ updateAvailable' = TRUE
          /\ lastStatus' = notifyCallbacks(getStatus(registration, TRUE))
     ELSE UNCHANGED <<updateAvailable, lastStatus>>
  /\ UNCHANGED <<mgrEnv, mgrPc, registration, updateListener, subscribed,
                 controller, updatePc>>
  /\ MgrUnchanged

\* statechange to 'activated' of the new worker, which takes control.
WorkerActivated ==
  /\ swWaiting
  /\ swWaiting' = FALSE
  /\ controller' = TRUE
  /\ lastStatus' = IF updateListener
                   THEN notifyCallbacks(getStatus(registration, updateAvailable))
                   ELSE lastStatus
  /\ UNCHANGED <<mgrEnv, mgrPc, registration, updateAvailable, updateListener,
                 subscribed, updatePc>>
  /\ MgrUnchanged

\* The module is loaded in a browser: the singleton is being constructed.
InitMgr ==
  /\ EvalIdle
  /\ host = HostUTC
  /\ SeqIdle
  /\ SWIdle
  /\ mgrEnv \in {"unsupported", "development", "production"}
  /\ mgrPc = "start"
  /\ registration = FALSE
  /\ updateAvailable = FALSE
  /\ updateListener = FALSE
  /\ subscribed = FALSE
  /\ lastStatus = NoStatus
  /\ swWaiting = FALSE
  /\ controller \in BOOLEAN
  /\ updatePc = "idle"

NextMgr ==
  \/ InitStart
  \/ \E ok \in BOOLEAN : RegisterReply(ok)
  \/ \E ok \in BOOLEAN : InitUpdateReply(ok)
  \/ onStatusChange
  \/ UpdateCall
  \/ \E ok \in BOOLEAN : UpdateReply(ok)
  \/ \E success \in BOOLEAN : unregister(success)
  \/ WorkerInstalled
  \/ WorkerActivated

SpecMgr == InitMgr /\ [][NextMgr]_vars

---------------------------------------------------------------------------
(* The display sequencer: claims. *)

InPlaylist(id) == \E i \in DOMAIN videos : videos[i].id = id
ScheduledNow(id) == isVideoScheduledNow(Catalog[id], now, host)
ScreenNext ==
  Screen(loading', error', videos', currentVideoIndex', videoError',
         videoLoadError')
EmptyMessages == {ErrNoVideos, ErrNoActive, ErrNoneScheduled}

C2_IndexInRange ==
  \/ /\ Len(videos) = 0
     /\ ScreenNow \in {"loading", "error", "noVideoSelected"}
  \/ /\ 0 <= currentVideoIndex
     /\ currentVideoIndex <= Len(videos) - 1

\* C3: the play loop never stops: whenever a video is on screen the
\* sequencer reacts to its next end-of-content or error event.
C3_KeepsReacting ==
  ScreenNow = "video" => listening

\* C4: by time passing alone, a published item whose schedule window has
\* ended (its row unchanged and active) is eventually removed from the
\* published playlist.
C4_RebuiltByClock ==
  \A id \in VideoIds :
    (InPlaylist(id) /\ Row(id, TRUE) \in db /\ ~ScheduledNow(id))
      ~> ~InPlaylist(id)

\* `out` holds the rows of `in` in ascending sequence_order, rows of equal
\* sequence_order in the order they have in `in`.
IsStableSortOf(out, in) ==
  /\ Len(out) = Len(in)
  /\ \A i \in DOMAIN in : \E j \in DOMAIN out : out[j] = in[i]
  /\ \A i, j \in DOMAIN out :
       i < j => SequenceOrder(out[i]) <= SequenceOrder(out[j])
  /\ \A i, j \in DOMAIN in :
       (i < j /\ SequenceOrder(in[i]) = SequenceOrder(in[j]))
         => \E k, l \in DOMAIN out : k < l /\ out[k] = in[i] /\ out[l] = in[j]

\* C5: a recompute that runs to its end publishes exactly the rows of its
\* snapshot that are active and scheduled at that instant, in ascending
\* sequence_order, ties in their original order.
C5_RecomputePublishesEligible ==
  [][\A i \in DOMAIN loads :
       (LoadDone(i) /\ ~FilterThrows(loads[i]))
         => IsStableSortOf(videos', FilterScheduled(loads[i], now, host))]_vars

\* C6: once a recompute has yielded zero eligible items, the display shows
\* an item again only through a recompute that yields eligible items.
C6_NoContentUntilEligible ==
  [][(ScreenNow = "error" /\ error \in EmptyMessages
        /\ ScreenNext \in {"video", "videoError"})
       => \E i \in DOMAIN loads :
            /\ LoadDone(i)
            /\ ~FilterThrows(loads[i])
            /\ Len(FilterScheduled(loads[i], now, host)) > 0]_vars

---------------------------------------------------------------------------
(* The schedule rules as the specification words them, on the wall clock   *)
(* of the instant in the item's own time zone.                             *)

\* The instant in the item's zone, as seconds since day 0 00:00:00.
WallClock(video, t) == t + TzOffset(video.schedule_timezone)
WallDate(video, t) == WallClock(video, t) \div SecPerDay
WallMinuteOfDay(video, t) == (WallClock(video, t) % SecPerDay) \div 60
WallWeekday(video, t) == WallDate(video, t) % 7
MinuteOfDay(timeString) == timeString[1] * 60 + timeString[2]

HasDates(video) ==
  video.schedule_start_date # NoDate /\ video.schedule_end_date # NoDate
HasTimes(video) ==
  video.schedule_start_time # NoTime /\ video.schedule_end_time # NoTime
HasWeekdays(video) == video.schedule_weekdays.kind = "json"

InDailyWindow(video, t) ==
  LET m == WallMinuteOfDay(video, t)
      start == MinuteOfDay(video.schedule_start_time)
      end == MinuteOfDay(video.schedule_end_time)
  IN  IF start <= end THEN start <= m /\ m <= end
      ELSE m >= start \/ m <= end

InDateRange(video, t) ==
  /\ video.schedule_start_date <= WallDate(video, t)
  /\ WallDate(video, t) <= video.schedule_end_date

Evaluated == evResult # "none"
Eligible == evResult = "true"

\* C7: an active time_daily item is eligible iff the minute of day of the
\* instant in the item's zone lies in the window, same-day (start <= end:
\* start <= m <= end) or overnight (start > end: m >= start or m <= end).
C7_DailyWindow ==
  (Evaluated /\ evVideo.is_active /\ evVideo.schedule_type = "time_daily"
     /\ HasTimes(evVideo) /\ TzKnown(evVideo.schedule_timezone))
  => (Eligible <=> InDailyWindow(evVideo, evNow))

\* C8: an active date_range item is eligible iff the calendar date of the
\* instant in the item's zone lies in [start, end], both days whole, on
\* every host.
C8_DateRange ==
  (Evaluated /\ evVideo.is_active /\ evVideo.schedule_type = "date_range"
     /\ HasDates(evVideo) /\ TzKnown(evVideo.schedule_timezone))
  => (Eligible <=> InDateRange(evVideo, evNow))

\* C9: an active weekdays item with a list of weekdays, in a zone that
\* resolves, is eligible iff the weekday (0 = Sunday) of the instant in the
\* item's zone is in the list.
C9_WeekdaySet ==
  (Evaluated /\ evVideo.is_active /\ evVideo.schedule_type = "weekdays"
     /\ HasWeekdays(evVideo) /\ TzKnown(evVideo.schedule_timezone))
  => (Eligible <=> WallWeekday(evVideo, evNow) \in evVideo.schedule_weekdays.days)

\* Saturday 10:00 UTC with the list [0, 6] in UTC is eligible, on a host
\* that is not in UTC.
C9_Witness ==
  /\ Eligible /\ evVideo.schedule_type = "weekdays"
  /\ evVideo.schedule_weekdays = WeekdaysJSON({0, 6})
  /\ evVideo.schedule_timezone = "UTC"
  /\ evNow = At(6, 10, 0, 0)
  /\ host = HostKolkata

\* The stand-alone rule of kind `type` on the sub-rule fields of the item.
StandAlone(video, type, t, h) ==
  isVideoScheduledNow([video EXCEPT !.schedule_type = type], t, h)

\* C10: an active custom item is eligible iff every sub-rule present in it
\* (date range, daily window, weekday list) holds as the stand-alone rule
\* does; an absent sub-rule counts as true.
C10_Composite ==
  (Evaluated /\ evVideo.is_active /\ evVideo.schedule_type = "custom"
     /\ evResult # "throw")
  => (Eligible <=>
        /\ HasDates(evVideo) => StandAlone(evVideo, "date_range", evNow, host)
        /\ HasTimes(evVideo) => StandAlone(evVideo, "time_daily", evNow, host)
        /\ HasWeekdays(evVideo) => StandAlone(evVideo, "weekdays", evNow, host))

\* A custom item whose date range matches and whose weekday list does not
\* is not eligible.
C10_Witness ==
  /\ evResult = "false" /\ evVideo.schedule_type = "custom"
  /\ HasDates(evVideo) /\ StandAlone(evVideo, "date_range", evNow, host)
  /\ ~HasTimes(evVideo)
  /\ HasWeekdays(evVideo) /\ ~StandAlone(evVideo, "weekdays", evNow, host)

\* How a call of isVideoScheduledNow(video, t) on host h ends.
Outcome(video, t, h) ==
  IF Throws(video) THEN "throw"
  ELSE IF isVideoScheduledNow(video, t, h) THEN "true" ELSE "false"

\* C11: an active weekdays or custom item whose stored weekday text does
\* not parse is not eligible at any instant, and the call returns.
C11_MalformedWeekdaysFailClosed ==
  (Evaluated /\ evVideo.is_active
     /\ evVideo.schedule_type \in {"weekdays", "custom"}
     /\ evVideo.schedule_weekdays = Malformed
     /\ TzKnown(evVideo.schedule_timezone))
  => evResult = "false"

\* C12: when the item's zone is empty or names no zone, the call returns
\* the boolean that the rule gives for the instant in UTC.
C12_TimezoneFallsBackToUTC ==
  LET inUTC == [evVideo EXCEPT !.schedule_timezone = "UTC"]
  IN  (Evaluated /\ evVideo.schedule_timezone \notin {"UTC", "Asia/Tokyo"}
         /\ ~Throws(inUTC))
      => evResult = Outcome(inUTC, evNow, host)

\* C13: the outcome of a call depends on the item and the instant only: on
\* every host it is the outcome observed on this one.
C13_SameOnEveryHost ==
  Evaluated => \A h \in Hosts : Outcome(evVideo, evNow, h) = evResult

---------------------------------------------------------------------------
(* The service worker: claims. *)

\* C14: while VIDEO_CACHE holds a URI, a get of that URI in the video branch
\* is answered with the stored response and starts no network fetch.
C14_VideoCacheFirst ==
  [][\A req \in Requests :
       (GetVideo(req) /\ cacheEntries[VIDEO_CACHE][req.uri] # "none")
       => /\ fetches' = fetches
          /\ response' = Respond(req.uri, "video", VIDEO_CACHE,
                                 cacheEntries[VIDEO_CACHE][req.uri])]_vars

\* A get of a stored video has just been answered from VIDEO_CACHE.
C14_Witness ==
  /\ response.branch = "video"
  /\ response.from = VIDEO_CACHE
  /\ cacheEntries[VIDEO_CACHE][response.uri] = response.body
  /\ fetches = EmptyBag

\* C15: when the fetch of a video get fails and VIDEO_CACHE does not hold the
\* URI, the caller receives the 'unavailable' response, never an error.
C15_VideoUnavailableNotError ==
  [][\A f \in BagToSet(fetches), putOk \in BOOLEAN :
       (/\ NetReply(f, "fail", putOk)
        /\ f.branch = "video" /\ f.kind = "get"
        /\ cacheEntries[VIDEO_CACHE][f.uri] = "none")
       => response' = Respond(f.uri, "video", "unavailable", "none")]_vars

ApiGetPending ==
  \E f \in BagToSet(fetches) : f.branch = "api" /\ f.kind = "get"

\* C17: every /api/ get eventually returns, also when the network never
\* answers its fetch.
C17_ApiGetTerminates == ApiGetPending ~> ~ApiGetPending

\* C18: a get of a page or static asset that is answered from a cache
\* starts a background fetch that refreshes the entry.
C18_StaticRevalidates ==
  [][\A req \in Requests :
       (GetStatic(req) /\ response'.from \in CacheNames)
       => fetches' = Started(Fetch(req.uri, "static", "refresh"))]_vars

\* The cache a branch of the fetch handler writes to.
BranchCache(branch) ==
  CASE branch = "video" -> VIDEO_CACHE
    [] branch = "api" -> API_CACHE
    [] OTHER -> CACHE_NAME

\* C19: a response that comes from a cache comes from the cache of the
\* branch that serves the get.
C19_TiersDisjoint ==
  response.from \in CacheNames => response.from = BranchCache(response.branch)

\* The request URLs a cache holds.
Stored(name) == {u \in Uris : cacheEntries[name][u] # "none"}

\* C20: no cache holds more than max-entries entries once a write to it has
\* completed.
C20_MaxEntriesEnforced ==
  \A name \in CacheNames : Cardinality(Stored(name)) <= MaxEntries

\* CacheStorage has a cache of that name.
HasCache(names, name) == \E i \in DOMAIN names : names[i] = name

\* C21: activation deletes every cache that does not carry one of the
\* worker's own (current-version) names, with all its entries, and leaves
\* every cache of the current version and its entries as they were.
C21_ActivateFlushesOutdated ==
  [][Activate =>
       /\ \A c \in AllCaches \ CacheNames :
            ~HasCache(cacheNames', c) /\ cacheEntries'[c] = NoEntries[c]
       /\ \A c \in CacheNames :
            /\ HasCache(cacheNames', c) <=> HasCache(cacheNames, c)
            /\ cacheEntries'[c] = cacheEntries[c]]_vars

\* The worker has activated: the cache of the previous version is gone and
\* the video stored under the current tag before the update is still there.
C21_Witness ==
  /\ swState = "activated"
  /\ cacheNames = <<VIDEO_CACHE, CACHE_NAME>>
  /\ cacheEntries[VIDEO_CACHE][VideoUri] = "stale"
  /\ cacheEntries[OLD_VIDEO_CACHE][VideoUri] = "none"
  /\ fetches = EmptyBag /\ response = NoResponse

\* C22: a preload of a URI that VIDEO_CACHE already holds starts no network
\* fetch.
C22_PreloadIdempotent ==
  [][\A uri \in Uris :
       (Preload(uri) /\ cacheEntries[VIDEO_CACHE][uri] # "none")
       => fetches' = fetches]_vars

\* C23: finishing installation leaves the new version waiting: the install
\* handler does not set the skip-waiting flag, so that only a SKIP_WAITING
\* message lets the browser activate the worker while the previous version
\* controls the page.
C23_WaitsForExplicitTrigger ==
  [][\A added \in BOOLEAN : Install(added) => ~skipWaitingFlag']_vars

\* C25: when the network answers a video or /api/ get with success and
\* cache.put fails, the caller still receives the network's response.
C25_PutFailureNotFatal ==
  [][\A f \in BagToSet(fetches) :
       (/\ NetReply(f, "ok", FALSE)
        /\ f.kind = "get" /\ f.branch \in {"video", "api"})
       => response' = Respond(f.uri, f.branch, "network", "fresh")]_vars

\* C24: once init has ended with a registration, also through a failed
\* update check, the status the subscriber holds says registered, and a new
\* version that has installed since is detected and reported.
C24_FailedCheckNotFatal ==
  (mgrPc \in {"ready", "failed"} /\ registration /\ subscribed)
  => /\ lastStatus.isRegistered
     /\ (swWaiting /\ controller)
          => (updateAvailable /\ lastStatus.isUpdateAvailable)

\* C29: a get or a preload of a video URI for which a fetch of the video
\* tier is already in flight starts no second network request.
C29_FetchesCoalesced ==
  [][\A req \in Requests :
       (/\ GetVideo(req) \/ Preload(req.uri)
        /\ \E f \in BagToSet(fetches) : f.uri = req.uri /\ f.branch = "video")
       => fetches' = fetches]_vars

\* C26: the auto-skip timer of an error fires only while that error is still
\* shown at the position it was set for: a retry, a skip, a successful play
\* or a recompute in between has cancelled it.
C26_StaleTimerCancelled ==
  [][TimerFire =>
       /\ videoError
       /\ currentVideoIndex = Head(timers).index
       /\ Len(videos) = Head(timers).length]_vars

\* C27: when the cursor has moved since the auto-skip timer was set, the
\* timer's advance leaves the cursor where it is.
C27_AdvanceAppliedOnce ==
  [][(TimerFire /\ currentVideoIndex # Head(timers).index)
       => currentVideoIndex' = currentVideoIndex]_vars

\* C28: when the last load in flight completes, no load has failed or come
\* back empty since the latest one was started, and the videos table as it
\* is now has items to show, the playlist published is the one computed
\* from the table as it is now.
C28_FreshestSnapshotWins ==
  [][\A i \in 1 .. MaxLoads :
       (/\ LoadDone(i)
        /\ Len(loads) = 1
        /\ error = "null"
        /\ \A snapshot \in getAllVideos(db) :
             /\ ~FilterThrows(snapshot)
             /\ Len(FilterScheduled(snapshot, now, host)) > 0)
       => \E snapshot \in getAllVideos(db) :
            videos' = SortBySequenceOrder(FilterScheduled(snapshot, now, host))]_vars

---------------------------------------------------------------------------
(* scheduleUtils: the encoding of the time of day. *)

\* The daily window decided on minutes since midnight.
MinuteOfDayWindow(video, t, h) ==
  LET nowInTimezone == NowInTimezone(video, t, h)
      currentTime == GetHours(nowInTimezone, h) * 60 + GetMinutes(nowInTimezone, h)
      startTime == MinuteOfDay(video.schedule_start_time)
      endTime == MinuteOfDay(video.schedule_end_time)
  IN  IF startTime <= endTime
      THEN currentTime >= startTime /\ currentTime <= endTime
      ELSE currentTime >= startTime \/ currentTime <= endTime

\* C30: for a time_daily item the decision the code takes on hours * 100 +
\* minutes is the decision taken on hours * 60 + minutes, for same-day and
\* for overnight windows.
C30_EncodingsAgree ==
  (/\ Evaluated
   /\ evVideo.is_active
   /\ evVideo.schedule_type = "time_daily"
   /\ TzKnown(evVideo.schedule_timezone)
   /\ evVideo.schedule_start_time # NoTime
   /\ evVideo.schedule_end_time # NoTime)
  => ((evResult = "true") <=> MinuteOfDayWindow(evVideo, evNow, host))

\* An overnight window whose times have minutes, evaluated inside it after
\* midnight.
C30_Witness ==
  /\ evVideo.schedule_type = "time_daily"
  /\ evVideo.schedule_start_time = <<22, 30>>
  /\ evVideo.schedule_end_time = <<5, 59>>
  /\ evNow = At(7, 5, 59, 0)
  /\ evResult = "true"

=============================================================================
